---- MODULE Spec2Model ----
(***************************************************************************)
(* gcal-pull-view (src/src/main.rs): a one-way reconciliation of a CalDAV  *)
(* mirror calendar with a Google source calendar.                         *)
(*                                                                         *)
(* The mirror store is a map from resource name (<uid>.ics) to one         *)
(* calendar block.  Time is counted in ticks; one second is TicksPerSec    *)
(* ticks, so an instant can carry a sub-second part.  iCalendar timestamp  *)
(* values carry whole seconds only.  An Option<T> is a sequence of length  *)
(* 0 (None) or 1 (Some).                                                   *)
(***************************************************************************)
EXTENDS Integers, Sequences, FiniteSets, TLC

VARIABLES
    store,          \* the mirror store: resource name -> block
    pc,             \* position of main / sync
    due,            \* interval ticks that are due and not yet taken
    inFlight,       \* number of sync() futures in progress
    doc,            \* children of the parsed mirror document (sync: `events`)
    caldav_events,  \* sync: caldav_events
    google_events,  \* sync: google_events
    to_delete,      \* sync: to_delete
    to_create,      \* sync: to_create
    i,              \* completed iterations of the running for loop
    diagnostics,    \* eprintln! lines of the cycle
    log,            \* write requests the cycle has issued against the mirror
    staged,         \* the counts printed after find_diff
    lastCycle,      \* outcome of the last finished cycle
    failedAt,       \* where the failed cycle failed
    prevTarget,     \* google_events of the last successful cycle
    storeAtStart,   \* the store when the cycle started
    source          \* the source calendar's events inside the query window

vars == <<store, pc, due, inFlight, doc, caldav_events, google_events,
          to_delete, to_create, i, diagnostics, log, staged, lastCycle,
          failedAt, prevTarget, storeAtStart, source>>

-----------------------------------------------------------------------------
(* Bounds of the model *)

TicksPerSec == 2
MaxSourceLen == 2
MaxMirrorLen == 2
MaxDoc == 2
MaxDue == 1

-----------------------------------------------------------------------------
(* Option and sequence helpers *)

None == <<>>
Some(x) == <<x>>
IsSome(o) == Len(o) = 1
Unwrap(o) == o[1]

SeqsUpTo(S, n) == UNION {[1..k -> S] : k \in 0..n}

Range(s) == {s[k] : k \in DOMAIN s}

RECURSIVE Count(_, _)
Count(s, x) ==
    IF s = <<>> THEN 0
    ELSE (IF Head(s) = x THEN 1 ELSE 0) + Count(Tail(s), x)

-----------------------------------------------------------------------------
(* Data *)

\* the identifiers create can draw, in the order the store lists its resources
UidOrder == <<"u1", "u2">>
UIDs == {UidOrder[k] : k \in DOMAIN UidOrder}
Summaries == {"Standup", "Lunch"}

\* struct Event: equality and hash over exactly start, end, summary
Event(s, e, sum) == [start |-> s, end |-> e, summary |-> sum]

\* struct EventWithCaldavUid
EventWithCaldavUid(uid, event) == [caldav_uid |-> uid, event |-> event]

\* ical::Property holding a timestamp: the value's shape, its wall-clock
\* second, and the TZID attribute.
\*   "utc"   YYYYMMDDTHHMMSSZ      "local" YYYYMMDDTHHMMSS
\*   "date"  YYYYMMDD
DtProp(form, t, tzid) == [form |-> form, t |-> t, tzid |-> tzid]

VBlock(name, uid, summary, dtstart, dtend) ==
    [name |-> name, uid |-> uid, summary |-> summary,
     dtstart |-> dtstart, dtend |-> dtend]

-----------------------------------------------------------------------------
(* Calendar Record Codec *)

\* chrono format "%Y%m%dT%H%M%SZ": the sub-second part is not written
FormatUtc(instant) == DtProp("utc", instant \div TicksPerSec, None)

\* Event::to_ical
to_ical(event, uid) ==
    VBlock("VEVENT", Some(uid), Some(event.summary),
           Some(FormatUtc(event.start)), Some(FormatUtc(event.end)))

\* chrono_tz: the zone's offset from UTC at UTC second u.  A miniature of
\* America/New_York: UTC-5, UTC-4 from second 7 (spring forward), UTC-5
\* again from second 10 (fall back).
UtcOffset(tz, u) ==
    IF tz = "America/New_York"
    THEN (IF u < 7 THEN 0 - 5 ELSE IF u < 10 THEN 0 - 4 ELSE 0 - 5)
    ELSE 0

KnownZones == {"America/New_York", "UTC"}

\* and_local_timezone followed by earliest() in place of single()
LocalResult_earliest(tz, l) ==
    LET all == {u \in 0..(l + 5) : u + UtcOffset(tz, u) = l}
    IN  {u \in all : \A v \in all : u <= v}

\* and_local_timezone: the UTC seconds whose wall-clock reading in tz is l
\* (none in a gap, two in a fold)
LocalResult(tz, l) == {u \in 0..(l + 5) : u + UtcOffset(tz, u) = l}

Ok(v) == [ok |-> TRUE, val |-> v, err |-> ""]
Err(msg) == [ok |-> FALSE, val |-> 0, err |-> msg]

parse_ical_datetime(property) ==
    IF property.form = "utc"
    THEN Ok(property.t * TicksPerSec)
    ELSE IF ~IsSome(property.tzid)
    THEN Err("Missing key TZID in ical datetime property")
    ELSE IF Unwrap(property.tzid) \notin KnownZones
    THEN Err("failed to parse timezone")
    ELSE IF property.form # "local"
    THEN Err("input is not a date and time")
    ELSE LET r == LocalResult(Unwrap(property.tzid), property.t)
         IN  IF Cardinality(r) = 1
             THEN Ok((CHOOSE u \in r : TRUE) * TicksPerSec)
             ELSE Err("Ambiguous or invalid local time")

\* get_ical_property: the field of the block, or the lookup error
get_ical_property(ical, property_name) ==
    LET p == CASE property_name = "UID" -> ical.uid
               [] property_name = "SUMMARY" -> ical.summary
               [] property_name = "DTSTART" -> ical.dtstart
               [] property_name = "DTEND" -> ical.dtend
    IN  IF IsSome(p) THEN [ok |-> TRUE, val |-> p, err |-> ""]
        ELSE [ok |-> FALSE, val |-> None, err |-> property_name]

describe_ical_event(event) ==
    [name |-> event.name, summary |-> event.summary, dtstart |-> event.dtstart]

\* the DTSTART filter: only blocks whose start value has a time component
HasTimeComponent(ical_event) ==
    LET r == get_ical_property(ical_event, "DTSTART")
    IN  IF r.ok THEN Unwrap(r.val).form \in {"utc", "local"} ELSE FALSE

\* the closure of the map: UID, then DTSTART, DTEND, then SUMMARY; the
\* first failure is the block's error
DecodeBlock(b) ==
    LET uid == get_ical_property(b, "UID")
        ds == get_ical_property(b, "DTSTART")
        de == get_ical_property(b, "DTEND")
        sm == get_ical_property(b, "SUMMARY")
    IN  IF ~uid.ok THEN Err("Looking up property: UID")
        ELSE IF ~ds.ok THEN Err("Looking up property: DTSTART")
        ELSE LET s == parse_ical_datetime(Unwrap(ds.val))
             IN  IF ~s.ok THEN Err(s.err)
                 ELSE IF ~de.ok THEN Err("Looking up property: DTEND")
                 ELSE LET e == parse_ical_datetime(Unwrap(de.val))
                      IN  IF ~e.ok THEN Err(e.err)
                          ELSE IF ~sm.ok THEN Err("Looking up property: SUMMARY")
                          ELSE Ok(EventWithCaldavUid(
                                   Unwrap(uid.val),
                                   Event(s.val, e.val, Unwrap(sm.val))))

\* the eprintln! of the filter_map
Diagnostic(b, err) == [event |-> describe_ical_event(b), cause |-> err]

RECURSIVE DecodeChildren(_)
DecodeChildren(children) ==
    IF children = <<>> THEN [events |-> <<>>, diags |-> <<>>]
    ELSE LET b == Head(children)
             rest == DecodeChildren(Tail(children))
         IN  IF b.name # "VEVENT" \/ ~HasTimeComponent(b) THEN rest
             ELSE LET r == DecodeBlock(b)
                  IN  IF r.ok
                      THEN [rest EXCEPT !.events = <<r.val>> \o @]
                      ELSE [rest EXCEPT !.diags = <<Diagnostic(b, r.err)>> \o @]

\* fetch_caldav_events collecting into a Result: the first undecodable block
\* ends the decoding and what follows it is lost
RECURSIVE DecodeUntilError(_)
DecodeUntilError(children) ==
    IF children = <<>> THEN [events |-> <<>>, diags |-> <<>>]
    ELSE LET b == Head(children)
         IN  IF b.name # "VEVENT" \/ ~HasTimeComponent(b)
             THEN DecodeUntilError(Tail(children))
             ELSE LET r == DecodeBlock(b)
                  IN  IF r.ok
                      THEN [DecodeUntilError(Tail(children))
                                EXCEPT !.events = <<r.val>> \o @]
                      ELSE [events |-> <<>>,
                            diags |-> <<Diagnostic(b, r.err)>>]

\* fetch_caldav_events, from the parsed document on
fetch_caldav_events(children) == DecodeChildren(children)

-----------------------------------------------------------------------------
(* Source Adapter *)

GoogleEvent(summary, start, end, attendees) ==
    [summary |-> summary, start |-> start, end |-> end, attendees |-> attendees]

\* .max_attendees(1)
MaxAttendees == 1

Min(a, b) == IF a < b THEN a ELSE b

\* events().list() answered without the attendee limit
ListEvents_all_attendees(calendar) == calendar

\* events().list()...max_attendees(1).doit(): the items of the response, each
\* with no more attendees than asked for, the first-listed ones
ListEvents(calendar) ==
    [k \in DOMAIN calendar |->
        [calendar[k] EXCEPT
            !.attendees = SubSeq(@, 1, Min(Len(@), MaxAttendees))]]

Declined(google_event) ==
    \E k \in DOMAIN google_event.attendees :
        google_event.attendees[k] = "declined"

RECURSIVE FilterItems(_)
FilterItems(items) ==
    IF items = <<>> THEN <<>>
    ELSE LET g == Head(items)
             rest == FilterItems(Tail(items))
         IN  IF Declined(g) THEN rest
             ELSE IF ~IsSome(g.start) \/ ~IsSome(g.end) \/ ~IsSome(g.summary)
             THEN rest
             ELSE <<Event(Unwrap(g.start), Unwrap(g.end), Unwrap(g.summary))>>
                  \o rest

\* the filter_map with a date-only start or end read as midnight
RECURSIVE FilterItems_date_as_midnight(_)
FilterItems_date_as_midnight(items) ==
    IF items = <<>> THEN <<>>
    ELSE LET g == Head(items)
             rest == FilterItems_date_as_midnight(Tail(items))
         IN  IF Declined(g) \/ ~IsSome(g.summary) THEN rest
             ELSE <<Event(IF IsSome(g.start) THEN Unwrap(g.start) ELSE 0,
                          IF IsSome(g.end) THEN Unwrap(g.end) ELSE TicksPerSec,
                          Unwrap(g.summary))>>
                  \o rest

\* fetch_google_events, from the response's item list on
fetch_google_events(items) == FilterItems(items)

-----------------------------------------------------------------------------
(* Diff Engine *)

\* find_diff comparing how often a value is listed, in place of membership
find_diff_counting(current, target) ==
    LET values == [k \in DOMAIN current |-> current[k].event]
        listedMoreOften(e) == Count(values, e.event) > Count(target, e.event)
        listedLessOften(ev) == Count(values, ev) < Count(target, ev)
    IN  [to_delete |-> SelectSeq(current, listedMoreOften),
         to_create |-> SelectSeq(target, listedLessOften)]

\* find_diff with the deletion test made against the wrong index
find_diff_delete_against_current(current, target) ==
    LET current_set == {current[k].event : k \in DOMAIN current}
        absentFromCurrent(ev) == ev \notin current_set
        entryAbsentFromCurrent(e) == e.event \notin current_set
    IN  [to_delete |-> SelectSeq(current, entryAbsentFromCurrent),
         to_create |-> SelectSeq(target, absentFromCurrent)]

\* find_diff with the creation test made against the wrong index
find_diff_create_against_target(current, target) ==
    LET target_set == Range(target)
        absentFromTarget(e) == e.event \notin target_set
        valueAbsentFromTarget(ev) == ev \notin target_set
    IN  [to_delete |-> SelectSeq(current, absentFromTarget),
         to_create |-> SelectSeq(target, valueAbsentFromTarget)]

find_diff(current, target) ==
    LET current_set == {current[k].event : k \in DOMAIN current}
        target_set == Range(target)
        absentFromTarget(e) == e.event \notin target_set
        absentFromCurrent(ev) == ev \notin current_set
    IN  [to_delete |-> SelectSeq(current, absentFromTarget),
         to_create |-> SelectSeq(target, absentFromCurrent)]

-----------------------------------------------------------------------------
(* Mirror store: GET <base>, PUT <base><id>.ics, DELETE <base><id>.ics *)

RECURSIVE Listing(_, _)
Listing(st, names) ==
    IF names = <<>> THEN <<>>
    ELSE (IF Head(names) \in DOMAIN st THEN <<st[Head(names)]>> ELSE <<>>)
         \o Listing(st, Tail(names))

\* the calendar document a GET of the collection returns, parsed
Document(st) == Listing(st, UidOrder)

\* PUT creates the resource or replaces the one already at that name
Put(st, name, block) ==
    [n \in DOMAIN st \cup {name} |-> IF n = name THEN block ELSE st[n]]

Remove(st, name) == [n \in DOMAIN st \ {name} |-> st[n]]

Request(op, name) == [op |-> op, name |-> name]

-----------------------------------------------------------------------------
(* Inputs *)

Utc(t) == DtProp("utc", t, None)

\* timestamp properties a mirror document can hold
DtProps ==
    {Utc(t) : t \in 0..2}
    \cup {DtProp("local", t, Some("America/New_York")) : t \in {0, 2, 5}}
    \cup {DtProp("local", 0, None), DtProp("local", 0, Some("Mars/Phobos")),
          DtProp("date", 0, None), DtProp("date", 0, Some("America/New_York"))}

\* blocks of a mirror document: every start form, every end form, and every
\* combination of present and missing properties
CodecBlocks ==
    {VBlock("VEVENT", Some("u1"), Some("Standup"), Some(ds), Some(Utc(1))) :
        ds \in DtProps}
    \cup {VBlock("VEVENT", Some("u2"), Some("Lunch"), Some(Utc(0)), Some(de)) :
        de \in DtProps}
    \cup {VBlock(n, uid, sm, ds, de) :
            n \in {"VEVENT", "VTODO"},
            uid \in {None, Some("u3")},
            sm \in {None, Some("Standup")},
            ds \in {None, Some(Utc(0))},
            de \in {None, Some(Utc(1))}}

\* what the resource named u can hold when the program starts: a timed event
\* the source also has, a timed event the source does not have, an all-day
\* event, and a block without a summary
InitBlocks(u) ==
    {VBlock("VEVENT", Some(u), Some("Standup"), Some(Utc(0)), Some(Utc(1))),
     VBlock("VEVENT", Some(u), Some("Lunch"), Some(Utc(1)), Some(Utc(2))),
     VBlock("VEVENT", Some(u), Some("Standup"), Some(DtProp("date", 0, None)),
            Some(DtProp("date", 0, None))),
     VBlock("VEVENT", Some(u), None, Some(Utc(0)), Some(Utc(1)))}

InitStores ==
    UNION {{st \in [D -> UNION {InitBlocks(u) : u \in D}] :
                \A u \in D : st[u] \in InitBlocks(u)} : D \in SUBSET UIDs}

\* events of the source calendar in the driver's runs: date-time events on a
\* whole second, one with a sub-second part, one whose attendee declined, and
\* a date-only event
GoogleItems ==
    {GoogleEvent(Some("Standup"), Some(0), Some(TicksPerSec), <<>>),
     GoogleEvent(Some("Lunch"), Some(0), Some(TicksPerSec), <<>>),
     GoogleEvent(Some("Standup"), Some(1), Some(TicksPerSec), <<>>),
     GoogleEvent(Some("Lunch"), Some(0), Some(TicksPerSec), <<"declined">>),
     GoogleEvent(Some("Standup"), None, None, <<>>)}

\* attendee lists of a source event, by response status
AttendeeLists ==
    {<<>>, <<"declined">>, <<"accepted">>, <<"accepted", "declined">>,
     <<"declined", "accepted">>, <<"needsAction", "declined">>}

\* events of the source calendar for the source adapter on its own: with and
\* without a summary, date-only or date-time on and off a whole second, and
\* every attendee list
SourceItems ==
    {GoogleEvent(sm, w[1], w[2], at) :
        sm \in {None, Some("Standup")},
        w \in {<<None, None>>, <<Some(0), Some(TicksPerSec)>>,
                <<Some(1), Some(TicksPerSec)>>},
        at \in AttendeeLists}

\* event values and mirror entries for the diff
EventValues ==
    {Event(s, TicksPerSec, sm) : s \in {0, 1}, sm \in Summaries}

MirrorEntries ==
    {EventWithCaldavUid(u, e) : u \in {"u1", "u2"}, e \in EventValues}

-----------------------------------------------------------------------------
(* Sync Driver *)

NoLocals ==
    /\ doc' = <<>>
    /\ caldav_events' = <<>>
    /\ google_events' = <<>>
    /\ to_delete' = <<>>
    /\ to_create' = <<>>
    /\ i' = 0
    /\ diagnostics' = <<>>
    /\ log' = <<>>
    /\ staged' = None

Init ==
    /\ store \in InitStores
    /\ pc = "tick"
    /\ due = 1
    /\ inFlight = 0
    /\ doc = <<>>
    /\ caldav_events = <<>>
    /\ google_events = <<>>
    /\ to_delete = <<>>
    /\ to_create = <<>>
    /\ i = 0
    /\ diagnostics = <<>>
    /\ log = <<>>
    /\ staged = None
    /\ lastCycle = "none"
    /\ failedAt = "none"
    /\ prevTarget = <<>>
    /\ storeAtStart = store
    /\ source \in SeqsUpTo(GoogleItems, MaxSourceLen)

\* the interval's next deadline passes
TimerDue ==
    /\ pc # "exited"
    /\ due < MaxDue
    /\ due' = due + 1
    /\ UNCHANGED <<store, pc, inFlight, doc, caldav_events, google_events,
                   to_delete, to_create, i, diagnostics, log, staged,
                   lastCycle, failedAt, prevTarget, storeAtStart, source>>

\* a driver that starts a cycle on every due tick, whatever it is doing
TickReady_spawning == pc # "exited" /\ due > 0

\* between two cycles one event enters the source calendar's window, or one
\* leaves it
SourceChange ==
    /\ pc = "tick"
    /\ \/ /\ Len(source) < MaxSourceLen
          /\ \E g \in GoogleItems : source' = Append(source, g)
       \/ \E k \in DOMAIN source :
              source' = SubSeq(source, 1, k - 1) \o SubSeq(source, k + 1, Len(source))
    /\ UNCHANGED <<store, pc, due, inFlight, doc, caldav_events, google_events,
                   to_delete, to_create, i, diagnostics, log, staged,
                   lastCycle, failedAt, prevTarget, storeAtStart>>

\* main is at interval.tick().await and a tick is due
TickReady == pc = "tick" /\ due > 0

\* interval.tick() returns and sync() starts: it sends the GET
Tick ==
    /\ TickReady
    /\ due' = due - 1
    /\ inFlight' = inFlight + 1
    /\ pc' = "fetch_caldav"
    /\ NoLocals
    /\ storeAtStart' = store
    /\ UNCHANGED <<store, lastCycle, failedAt, prevTarget, source>>

\* sync() returns Err and main's `?` returns it: the process ends
Fail(where) ==
    /\ pc' = "exited"
    /\ lastCycle' = "failed"
    /\ failedAt' = where
    /\ inFlight' = inFlight - 1

\* the GET returns and the document parses
GetCaldavOk ==
    /\ pc = "fetch_caldav"
    /\ doc' = Document(store)
    /\ pc' = "decode_caldav"
    /\ UNCHANGED <<store, due, inFlight, caldav_events, google_events,
                   to_delete, to_create, i, diagnostics, log, staged,
                   lastCycle, failedAt, prevTarget, storeAtStart, source>>

\* the GET fails, or the document as a whole does not parse
GetCaldavErr ==
    /\ pc = "fetch_caldav"
    /\ Fail("fetch_caldav")
    /\ UNCHANGED <<store, due, doc, caldav_events, google_events, to_delete,
                   to_create, i, diagnostics, log, staged, prevTarget,
                   storeAtStart, source>>

\* the rest of fetch_caldav_events: filter, decode, report, collect
DecodeCaldav ==
    /\ pc = "decode_caldav"
    /\ LET r == fetch_caldav_events(doc)
       IN  /\ caldav_events' = r.events
           /\ diagnostics' = r.diags
    /\ pc' = "fetch_google"
    /\ UNCHANGED <<store, due, inFlight, doc, google_events, to_delete,
                   to_create, i, log, staged, lastCycle, failedAt, prevTarget,
                   storeAtStart, source>>

\* the source answers with an item list
FetchGoogleOk ==
    /\ pc = "fetch_google"
    /\ google_events' = fetch_google_events(ListEvents(source))
    /\ pc' = "diff"
    /\ UNCHANGED <<store, due, inFlight, doc, caldav_events, to_delete,
                   to_create, i, diagnostics, log, staged, lastCycle,
                   failedAt, prevTarget, storeAtStart, source>>

\* a failed source fetch taken for a source without events
FetchGoogleErr_as_empty ==
    /\ pc = "fetch_google"
    /\ failedAt' = "fetch_google"
    /\ google_events' = <<>>
    /\ pc' = "diff"
    /\ UNCHANGED <<store, due, inFlight, doc, caldav_events, to_delete,
                   to_create, i, diagnostics, log, staged, lastCycle,
                   prevTarget, storeAtStart, source>>

\* find_diff called as soon as the mirror fetch is back, without the source's
\* answer
Diff_before_source ==
    /\ pc = "fetch_google"
    /\ LET d == find_diff(caldav_events, google_events)
       IN  /\ to_delete' = d.to_delete
           /\ to_create' = d.to_create
           /\ staged' = Some([deletes |-> Len(d.to_delete),
                              creates |-> Len(d.to_create)])
    /\ i' = 0
    /\ pc' = "deleting"
    /\ UNCHANGED <<store, due, inFlight, doc, caldav_events, google_events,
                   diagnostics, log, lastCycle, failedAt, prevTarget,
                   storeAtStart, source>>

\* the request fails (network, authorization), or the response has no items
FetchGoogleErr ==
    /\ pc = "fetch_google"
    /\ Fail("fetch_google")
    /\ UNCHANGED <<store, due, doc, caldav_events, google_events, to_delete,
                   to_create, i, diagnostics, log, staged, prevTarget,
                   storeAtStart, source>>

Diff ==
    /\ pc = "diff"
    /\ LET d == find_diff(caldav_events, google_events)
       IN  /\ to_delete' = d.to_delete
           /\ to_create' = d.to_create
           /\ staged' = Some([deletes |-> Len(d.to_delete),
                              creates |-> Len(d.to_create)])
    /\ i' = 0
    /\ pc' = "deleting"
    /\ UNCHANGED <<store, due, inFlight, doc, caldav_events, google_events,
                   diagnostics, log, lastCycle, failedAt, prevTarget,
                   storeAtStart, source>>

\* delete_caldav_event: the DELETE of <uid>.ics succeeds
DeleteOk ==
    /\ pc = "deleting"
    /\ i < Len(to_delete)
    /\ LET name == to_delete[i + 1].caldav_uid
       IN  /\ name \in DOMAIN store
           /\ store' = Remove(store, name)
           /\ log' = Append(log, Request("DELETE", name))
    /\ i' = i + 1
    /\ UNCHANGED <<pc, due, inFlight, doc, caldav_events, google_events,
                   to_delete, to_create, diagnostics, staged, lastCycle,
                   failedAt, prevTarget, storeAtStart, source>>

\* the DELETE fails: no such resource, or a transport error
DeleteErr ==
    /\ pc = "deleting"
    /\ i < Len(to_delete)
    /\ log' = Append(log, Request("DELETE", to_delete[i + 1].caldav_uid))
    /\ Fail("delete")
    /\ UNCHANGED <<store, due, doc, caldav_events, google_events, to_delete,
                   to_create, i, diagnostics, staged, prevTarget, storeAtStart, source>>

\* the create loop entered while deletions are still to be made
DeletesDone_early ==
    /\ pc = "deleting"
    /\ pc' = "creating"
    /\ i' = 0
    /\ UNCHANGED <<store, due, inFlight, doc, caldav_events, google_events,
                   to_delete, to_create, diagnostics, log, staged, lastCycle,
                   failedAt, prevTarget, storeAtStart, source>>

\* the delete loop is over
DeletesDone ==
    /\ pc = "deleting"
    /\ i = Len(to_delete)
    /\ pc' = "creating"
    /\ i' = 0
    /\ UNCHANGED <<store, due, inFlight, doc, caldav_events, google_events,
                   to_delete, to_create, diagnostics, log, staged, lastCycle,
                   failedAt, prevTarget, storeAtStart, source>>

\* create_caldav_event: a random identifier, and the PUT of <uid>.ics succeeds
CreateOk ==
    /\ pc = "creating"
    /\ i < Len(to_create)
    /\ \E random_uid \in UIDs :
          /\ store' = Put(store, random_uid, to_ical(to_create[i + 1], random_uid))
          /\ log' = Append(log, Request("PUT", random_uid))
    /\ i' = i + 1
    /\ UNCHANGED <<pc, due, inFlight, doc, caldav_events, google_events,
                   to_delete, to_create, diagnostics, staged, lastCycle,
                   failedAt, prevTarget, storeAtStart, source>>

\* the PUT fails
CreateErr ==
    /\ pc = "creating"
    /\ i < Len(to_create)
    /\ \E random_uid \in UIDs :
          log' = Append(log, Request("PUT", random_uid))
    /\ Fail("create")
    /\ UNCHANGED <<store, due, doc, caldav_events, google_events, to_delete,
                   to_create, i, diagnostics, staged, prevTarget, storeAtStart, source>>

\* the create loop is over: sync() returns Ok and main loops to the next tick
SyncOk ==
    /\ pc = "creating"
    /\ i = Len(to_create)
    /\ pc' = "tick"
    /\ inFlight' = inFlight - 1
    /\ lastCycle' = "ok"
    /\ prevTarget' = google_events
    /\ NoLocals
    /\ storeAtStart' = store
    /\ UNCHANGED <<store, due, failedAt, source>>

Next ==
    \/ TimerDue
    \/ SourceChange
    \/ Tick
    \/ GetCaldavOk
    \/ GetCaldavErr
    \/ DecodeCaldav
    \/ FetchGoogleOk
    \/ FetchGoogleErr
    \/ Diff
    \/ DeleteOk
    \/ DeleteErr
    \/ DeletesDone
    \/ CreateOk
    \/ CreateErr
    \/ SyncOk

Spec == Init /\ [][Next]_vars

-----------------------------------------------------------------------------
(* The diff engine and the codec on their own inputs *)

Idle ==
    /\ store = <<>>
    /\ due = 0
    /\ inFlight = 1
    /\ i = 0
    /\ diagnostics = <<>>
    /\ log = <<>>
    /\ staged = None
    /\ to_delete = <<>>
    /\ to_create = <<>>
    /\ lastCycle = "none"
    /\ failedAt = "none"
    /\ prevTarget = <<>>
    /\ storeAtStart = <<>>

\* sync() about to call find_diff on any two lists
InitDiff ==
    /\ Idle
    /\ pc = "diff"
    /\ doc = <<>>
    /\ source = <<>>
    /\ caldav_events \in SeqsUpTo(MirrorEntries, MaxMirrorLen)
    /\ google_events \in SeqsUpTo(EventValues, MaxSourceLen)

SpecDiff == InitDiff /\ [][Diff]_vars

\* fetch_caldav_events about to decode any parsed document
InitCodec ==
    /\ Idle
    /\ pc = "decode_caldav"
    /\ source = <<>>
    /\ doc \in SeqsUpTo(CodecBlocks, MaxDoc)
    /\ caldav_events = <<>>
    /\ google_events = <<>>

SpecCodec == InitCodec /\ [][DecodeCaldav]_vars

\* fetch_google_events about to query any source calendar
InitSource ==
    /\ Idle
    /\ pc = "fetch_google"
    /\ doc = <<>>
    /\ caldav_events = <<>>
    /\ google_events = <<>>
    /\ source \in SeqsUpTo(SourceItems, MaxSourceLen)

SpecSource == InitSource /\ [][FetchGoogleOk]_vars

-----------------------------------------------------------------------------
(* Claims *)

SameValue(a, b) ==
    a.start = b.start /\ a.end = b.end /\ a.summary = b.summary

\* the value of e occurs among the mirror entries
InMirror(e, entries) == \E k \in DOMAIN entries : SameValue(e, entries[k].event)

\* the value of e occurs among the source events
InSource(e, events) == \E k \in DOMAIN events : SameValue(e, events[k])

\* C1: find_diff returns as toDelete exactly the mirror entries whose
\* (start, end, summary) value no source event has, and as toCreate exactly
\* the source events whose value no mirror entry has; each as often as it is
\* listed, and whatever the mirror identifiers are.
C1_DiffIsValueDifference ==
    IsSome(staged) =>
        /\ \A x \in Range(caldav_events) \cup Range(to_delete) :
              Count(to_delete, x) =
                 IF InSource(x.event, google_events) THEN 0
                 ELSE Count(caldav_events, x)
        /\ \A e \in Range(google_events) \cup Range(to_create) :
              Count(to_create, e) =
                 IF InMirror(e, caldav_events) THEN 0
                 ELSE Count(google_events, e)

\* two mirror entries of one value under different identifiers are both
\* staged for deletion, next to a creation
C1_Witness ==
    /\ IsSome(staged)
    /\ Len(to_delete) = 2
    /\ to_delete[1].event = to_delete[2].event
    /\ to_delete[1].caldav_uid # to_delete[2].caldav_uid
    /\ Len(to_create) >= 1

\* the values of the mirror once the staged operations are applied to it
ValuesAfterApply ==
    {caldav_events[k].event :
        k \in {j \in DOMAIN caldav_events : caldav_events[j] \notin Range(to_delete)}}
    \cup Range(to_create)

\* C2: removing the entries of toDelete from the mirror list and adding the
\* events of toCreate gives a mirror whose set of values is the set of values
\* of the source list.
C2_ApplyingDiffYieldsSource ==
    IsSome(staged) => ValuesAfterApply = Range(google_events)

\* a diff that keeps one entry, deletes another and creates an event
C2_Witness ==
    /\ IsSome(staged)
    /\ Len(to_delete) >= 1
    /\ Len(to_delete) < Len(caldav_events)
    /\ Len(to_create) >= 1
    /\ Len(to_create) < Len(google_events)

\* C3: when the cycle before completed successfully and the source list is
\* the one that cycle saw, the diff of this cycle stages no deletion and no
\* creation.
C3_ConvergedAfterSuccess ==
    (IsSome(staged) /\ lastCycle = "ok" /\ prevTarget = google_events) =>
        (Unwrap(staged).deletes = 0 /\ Unwrap(staged).creates = 0)

\* C4: a cycle whose source fetch failed has issued no delete and no create,
\* has computed no diff, and has left the mirror store as it found it.
C4_FailedSourceFetchWritesNothing ==
    failedAt = "fetch_google" =>
        (log = <<>> /\ ~IsSome(staged) /\ store = storeAtStart)

\* the source fetch failed in a cycle whose mirror fetch returned events
C4_Witness ==
    /\ failedAt = "fetch_google"
    /\ pc = "exited"
    /\ caldav_events # <<>>

\* C5: a failed cycle does not end the driver.
C5_FailedCycleKeepsDriver == lastCycle = "failed" => pc # "exited"

\* C6: after a failed cycle the mirror store holds none of that cycle's
\* deletes and creates.
C6_FailedCycleLeavesNoWrites ==
    lastCycle = "failed" => store = storeAtStart

\* C7: at most one sync cycle is in flight at any time.
C7_OneCycleInFlight == inFlight <= 1

\* a tick is due while the cycle is applying its writes
C7_Witness ==
    /\ due > 0
    /\ pc \in {"deleting", "creating"}
    /\ log # <<>>
    /\ inFlight = 1

\* a timed event block with every required property, whose timestamps resolve
WellFormedTimed(b) ==
    /\ b.name = "VEVENT"
    /\ IsSome(b.uid) /\ IsSome(b.summary) /\ IsSome(b.dtstart) /\ IsSome(b.dtend)
    /\ Unwrap(b.dtstart).form \in {"utc", "local"}
    /\ parse_ical_datetime(Unwrap(b.dtstart)).ok
    /\ parse_ical_datetime(Unwrap(b.dtend)).ok

\* a timed event block that cannot be decoded
Malformed(b) ==
    /\ b.name = "VEVENT"
    /\ IsSome(b.dtstart)
    /\ Unwrap(b.dtstart).form \in {"utc", "local"}
    /\ ~WellFormedTimed(b)

DecodedOf(b) ==
    EventWithCaldavUid(
        Unwrap(b.uid),
        Event(parse_ical_datetime(Unwrap(b.dtstart)).val,
              parse_ical_datetime(Unwrap(b.dtend)).val,
              Unwrap(b.summary)))

\* C8: the mirror fetch returns, in document order, every decodable timed
\* event block of the document, whatever undecodable blocks stand among them.
C8_MalformedBlockSkipped ==
    pc = "fetch_google" =>
        LET good == SelectSeq(doc, WellFormedTimed)
        IN  caldav_events = [k \in DOMAIN good |-> DecodedOf(good[k])]

\* an undecodable block stands before a decodable one, which is returned
C8_Witness ==
    /\ pc = "fetch_google"
    /\ Len(doc) = 2
    /\ Malformed(doc[1])
    /\ WellFormedTimed(doc[2])
    /\ Len(caldav_events) = 1

\* an event block, not an all-day one, that lacks a required property
LacksRequired(b) ==
    /\ b.name = "VEVENT"
    /\ ~IsSome(b.uid) \/ ~IsSome(b.summary) \/ ~IsSome(b.dtstart) \/ ~IsSome(b.dtend)
    /\ IsSome(b.dtstart) => Unwrap(b.dtstart).form \in {"utc", "local"}

\* C9: every event block dropped for a missing required property, a missing
\* start included, has its diagnostic.
C9_EveryDroppedBlockReported ==
    pc = "fetch_google" =>
        \A k \in DOMAIN doc :
            LacksRequired(doc[k]) =>
                \E d \in DOMAIN diagnostics :
                    diagnostics[d].event = describe_ical_event(doc[k])

\* C10: a create whose fresh identifier names a resource the store already
\* holds fails and leaves the store as it is.
C10_CreateNeverOverwrites ==
    [][(/\ pc = "creating"
        /\ Len(log') = Len(log) + 1
        /\ log'[Len(log')].name \in DOMAIN store)
       => (store' = store /\ pc' = "exited")]_vars

\* C11: the record a create has just written under its identifier decodes to
\* an event with exactly the start instant, end instant and summary of the
\* source event it was made from, sub-second parts included.
C11_RoundTripExact ==
    (pc = "creating" /\ i >= 1) =>
        LET uid == log[Len(log)].name
            r == DecodeBlock(store[uid])
        IN  /\ r.ok
            /\ r.val.caldav_uid = uid
            /\ SameValue(r.val.event, to_create[i])

\* the first-listed attendee of a source event declined
FirstAttendeeDeclined(g) ==
    g.attendees # <<>> /\ g.attendees[1] = "declined"

\* a source event with a date-time start, a date-time end and a summary
TimedWithSummary(g) == IsSome(g.start) /\ IsSome(g.end) /\ IsSome(g.summary)

\* kept as far as attendance goes
NotFirstDeclined(g) == ~FirstAttendeeDeclined(g)

\* the Event values of a list of source events
EventsOf(items) ==
    [k \in DOMAIN items |->
        Event(Unwrap(items[k].start), Unwrap(items[k].end),
              Unwrap(items[k].summary))]

DateOnlyBlock(b) ==
    /\ b.name = "VEVENT"
    /\ IsSome(b.dtstart)
    /\ Unwrap(b.dtstart).form = "date"

\* the positions of the source events whose start carries a time of day
TimedPositions == {k \in DOMAIN source : IsSome(source[k].start)}

\* C13: no entry of the mirror fetch's output carries the identifier of a
\* block whose start is a date only; the source fetch's output holds only
\* values of source events whose start has a time of day, and no more events
\* than there are such source events; what is staged comes from these outputs.
C13_AllDayNeverAppears ==
    /\ pc \in {"fetch_google", "diff", "deleting", "creating"} =>
          \A k \in DOMAIN doc :
              DateOnlyBlock(doc[k]) =>
                  \A j \in DOMAIN caldav_events :
                      Some(caldav_events[j].caldav_uid) # doc[k].uid
    /\ pc \in {"diff", "deleting", "creating"} =>
          /\ Len(google_events) <= Cardinality(TimedPositions)
          /\ \A e \in Range(google_events) :
                \E k \in TimedPositions :
                    /\ Unwrap(source[k].start) = e.start
                    /\ source[k].summary = Some(e.summary)
    /\ pc \in {"deleting", "creating"} =>
          /\ Range(to_delete) \subseteq Range(caldav_events)
          /\ Range(to_create) \subseteq Range(google_events)

\* a cycle that fetched a mirror with an all-day block and a source with an
\* all-day event, both next to timed ones, and staged a deletion and a creation
C13_Witness ==
    /\ pc = "deleting"
    /\ \E k \in DOMAIN doc : DateOnlyBlock(doc[k])
    /\ \E k \in DOMAIN source : ~IsSome(source[k].start)
    /\ to_delete # <<>>
    /\ to_create # <<>>

\* the wall-clock second that UTC second u reads as in zone tz
WallClock(tz, u) == u + UtcOffset(tz, u)

\* the UTC seconds a timestamp property stands for: its own second under the
\* UTC marker, the seconds reading as its wall-clock value in its named zone
\* otherwise, none without a named zone
Instants(p) ==
    IF p.form = "utc" THEN {p.t}
    ELSE IF p.form = "local" /\ IsSome(p.tzid) /\ Unwrap(p.tzid) \in KnownZones
    THEN {u \in 0..(p.t + 24) : WallClock(Unwrap(p.tzid), u) = p.t}
    ELSE {}

Resolvable(p) == Cardinality(Instants(p)) = 1

InstantOf(p) == (CHOOSE u \in Instants(p) : TRUE) * TicksPerSec

\* an event block with a timed start and every property the decoder reads
CompleteTimed(b) ==
    /\ b.name = "VEVENT"
    /\ IsSome(b.uid) /\ IsSome(b.summary) /\ IsSome(b.dtstart) /\ IsSome(b.dtend)
    /\ Unwrap(b.dtstart).form \in {"utc", "local"}

BothResolve(b) == Resolvable(Unwrap(b.dtstart)) /\ Resolvable(Unwrap(b.dtend))

\* a zone-relative value in a gap or a fold of its zone, or without a zone
GapFoldOrNoZone(p) ==
    /\ p.form = "local"
    /\ ~IsSome(p.tzid) \/ Unwrap(p.tzid) \in KnownZones
    /\ ~Resolvable(p)

ResolutionError(p) ==
    IF IsSome(p.tzid) THEN "Ambiguous or invalid local time"
    ELSE "Missing key TZID in ical datetime property"

\* C14: the decoded events are those of the complete timed blocks whose start
\* and end each stand for exactly one instant, with that instant: the value's
\* own under the UTC marker, and for a zone-relative value the one UTC instant
\* reading as that wall-clock time in the named zone.  A start in the zone's gap
\* or fold, or without a named zone, fails with its error.
C14_TimestampResolution ==
    pc = "fetch_google" =>
        LET complete == SelectSeq(doc, CompleteTimed)
            good == SelectSeq(complete, BothResolve)
        IN  /\ caldav_events =
                  [k \in DOMAIN good |->
                      EventWithCaldavUid(
                          Unwrap(good[k].uid),
                          Event(InstantOf(Unwrap(good[k].dtstart)),
                                InstantOf(Unwrap(good[k].dtend)),
                                Unwrap(good[k].summary)))]
            /\ \A k \in DOMAIN complete :
                  GapFoldOrNoZone(Unwrap(complete[k].dtstart)) =>
                      \E d \in DOMAIN diagnostics :
                          diagnostics[d] =
                              Diagnostic(complete[k],
                                  ResolutionError(Unwrap(complete[k].dtstart)))

\* wall-clock second 0 in the zone at UTC-5 was decoded as UTC second 5, and
\* the block after it, whose start lies in the fold, gave an error
C14_Witness ==
    /\ pc = "fetch_google"
    /\ Len(doc) = 2
    /\ doc[1].dtstart = Some(DtProp("local", 0, Some("America/New_York")))
    /\ doc[2].dtstart = Some(DtProp("local", 5, Some("America/New_York")))
    /\ Len(caldav_events) = 1
    /\ caldav_events[1].event.start = 5 * TicksPerSec
    /\ Len(diagnostics) = 1
    /\ diagnostics[1].cause = "Ambiguous or invalid local time"

\* the requests of the cycle so far that are deletes
DeletesIssued == SelectSeq(log, LAMBDA r : r.op = "DELETE")

\* C15: among the requests of one cycle no delete comes after a create, and
\* when the first create is issued every staged deletion has been requested
\* and has succeeded, in the staged order.
C15_DeletesBeforeCreates ==
    /\ \A j, k \in DOMAIN log :
          (j < k /\ log[j].op = "PUT") => log[k].op = "PUT"
    /\ (\E k \in DOMAIN log : log[k].op = "PUT") =>
          /\ staged = Some([deletes |-> Len(to_delete), creates |-> Len(to_create)])
          /\ DeletesIssued =
                [k \in DOMAIN to_delete |->
                    Request("DELETE", to_delete[k].caldav_uid)]
          /\ \A k \in DOMAIN to_delete :
                to_delete[k].caldav_uid \in DOMAIN store =>
                    \E j \in DOMAIN log :
                        log[j] = Request("PUT", to_delete[k].caldav_uid)

\* a cycle has issued two deletes and then a create
C15_Witness ==
    /\ pc = "creating"
    /\ Len(log) = 3
    /\ log[1].op = "DELETE"
    /\ log[2].op = "DELETE"
    /\ log[3].op = "PUT"

\* the phase of the cycle the driver is in
Phase ==
    CASE pc = "tick" -> "Idle"
      [] pc \in {"fetch_caldav", "decode_caldav", "fetch_google"} -> "Fetching"
      [] pc = "diff" -> "Diffing"
      [] pc \in {"deleting", "creating"} -> "Applying"
      [] pc = "exited" -> "Exited"

\* the phase changes of a cycle, and those of a failing cycle, which ends
\* the process in the phase that failed
PhaseSteps ==
    {<<"Idle", "Fetching">>, <<"Fetching", "Diffing">>,
     <<"Diffing", "Applying">>, <<"Applying", "Idle">>,
     <<"Fetching", "Exited">>, <<"Applying", "Exited">>}

\* C16: the phase only ever changes from Idle to Fetching, from Fetching to
\* Diffing, from Diffing to Applying and from Applying to Idle (or ends with
\* the process when a fetch or a write fails); the diff is computed in the
\* Diffing phase, over the results of the mirror fetch and of the source fetch
\* of this cycle; a request to the mirror is issued, and the mirror store
\* changed, only in the Applying phase, after the diff.
C16_PhaseOrder ==
    [][/\ Phase' # Phase => <<Phase, Phase'>> \in PhaseSteps
       /\ staged' # staged /\ IsSome(staged') =>
             /\ Phase = "Diffing"
             /\ caldav_events = fetch_caldav_events(Document(storeAtStart)).events
             /\ google_events = fetch_google_events(ListEvents(source))
       /\ Len(log') > Len(log) \/ store' # store =>
             /\ Phase = "Applying"
             /\ IsSome(staged)
             /\ log' = Append(log, log'[Len(log')])]_vars

\* after a cycle that completed, the next cycle has gone through its fetches
\* and its diff and has issued a delete and a create
C16_Witness ==
    /\ lastCycle = "ok"
    /\ pc = "creating"
    /\ IsSome(staged)
    /\ Len(log) >= 2
    /\ log[1].op = "DELETE"
    /\ log[Len(log)].op = "PUT"

\* C17: the staged creations hold at most one entry per distinct
\* (start, end, summary) value, however often the source list holds a value
\* the mirror lacks.
C17_CreateOncePerValue ==
    IsSome(staged) =>
        \A j, k \in DOMAIN to_create :
            SameValue(to_create[j], to_create[k]) => j = k

\* the set of (start, end, summary) values of the mirror list
MirrorValues == {caldav_events[k].event : k \in DOMAIN caldav_events}

\* C18: when the mirror list and the source list hold the same set of
\* (start, end, summary) values, find_diff returns two empty lists, however
\* often a value is repeated and whatever the mirror identifiers are.
C18_SameValuesEmptyDiff ==
    (IsSome(staged) /\ MirrorValues = Range(google_events)) =>
        (to_delete = <<>> /\ to_create = <<>>)

\* one value, held twice by the mirror under two identifiers and once by the
\* source, has been diffed
C18_Witness ==
    /\ IsSome(staged)
    /\ Len(caldav_events) = 2
    /\ Len(google_events) = 1
    /\ caldav_events[1].caldav_uid # caldav_events[2].caldav_uid
    /\ MirrorValues = Range(google_events)
    /\ to_delete = <<>>
    /\ to_create = <<>>

\* a resource the mirror fetch does not return: an all-day event, a block
\* without a start, or a block skipped as undecodable
Hidden(b) == fetch_caldav_events(<<b>>).events = <<>>

\* C19: a delete request addresses an identifier the mirror fetch of the same
\* cycle returned, never a resource the fetch does not return, and such a
\* resource stays in the mirror store as it is through every step.
C19_HiddenResourceStays ==
    [][/\ (Len(log') > Len(log) /\ log'[Len(log')].op = "DELETE") =>
             /\ \E k \in DOMAIN caldav_events :
                   caldav_events[k].caldav_uid = log'[Len(log')].name
             /\ log'[Len(log')].name \in DOMAIN store =>
                   ~Hidden(store[log'[Len(log')].name])
       /\ \A n \in DOMAIN store :
             Hidden(store[n]) => (n \in DOMAIN store' /\ store'[n] = store[n])]_vars

\* the values of the decodable timed events the mirror store holds
MirrorStoreValues ==
    LET entries == fetch_caldav_events(Document(store)).events
    IN  {entries[k].event : k \in DOMAIN entries}

\* C20: after a successful cycle the decodable timed events of the mirror
\* are, by value, exactly the events the source returned for the window in
\* that cycle, wherever the starts of the mirror's earlier events lay.
C20_MirrorEqualsWindowAfterSuccess ==
    (pc = "tick" /\ lastCycle = "ok") =>
        MirrorStoreValues = Range(prevTarget)

====
